---------------------------- MODULE Spec2Model ----------------------------
(*************************************************************************)
(* Workflow execution engine: graph validation (GraphService) and the    *)
(* run lifecycle (ExecutionService, WorkflowRunService, NodeRunService). *)
(*                                                                       *)
(* Two specifications share the module:                                  *)
(*   SpecGraph  calls of the pure GraphService functions on bounded      *)
(*              node and edge lists;                                     *)
(*   Spec       one call of ExecutionService.execute_workflow, step by   *)
(*              step, against the persisted run / node-execution tables. *)
(*************************************************************************)
EXTENDS Integers, Sequences, FiniteSets, TLC

\* ---------------------------------------------------------------- bounds
\* Node ids are 1..MaxNodes; a node list is <<1, ..., n>> for n <= MaxNodes
\* (ids are opaque to the code, which only hashes and compares them, so the
\* first-seen order of the list is taken as the numbering).
MaxNodes == 3
\* Longest edge list of a graph.
MaxEdges == 3
\* Persistence operations that may raise during one execute_workflow call.
MaxFaults == 1

\* register_handler calls before a direct execute_node call.
MaxRegistered == 1

\* Longest template string that is rendered.
MaxTemplateLen == 6

\* Longest execution order of a run that executes concurrently with another.
MaxRunNodes == 2

\* Most documents one add_documents call adds.
MaxDocuments == 2

NodeIds == 1..MaxNodes

Range(s) == {s[i] : i \in 1..Len(s)}

\* All sequences over S of length <= n.
SeqUpTo(S, n) == UNION {[1..k -> S] : k \in 0..n}

\* Position of x in sequence s (0 when absent).
IndexOf(s, x) == IF \E i \in 1..Len(s) : s[i] = x
                 THEN CHOOSE i \in 1..Len(s) : s[i] = x /\ \A j \in 1..(i-1) : s[j] # x
                 ELSE 0

\* Python's None, and a value that is set.
None == <<>>
Some(x) == <<x>>

\* ------------------------------------------------------- GraphService
\* A Python dict is a record [keys: insertion-ordered key list, at: mapping].
\* An edge is <<source_node_id, target_node_id>>.

build_adjacency_list(nodes, edges) ==
    [keys |-> nodes,
     at   |-> [id \in Range(nodes) |->
                 LET es == SelectSeq(edges, LAMBDA e : e[1] = id)
                 IN  [k \in 1..Len(es) |-> es[k][2]]]]

\* Mutant: incoming self-loops are not recorded as parents.
build_reverse_adjacency_list_noself(nodes, edges) ==
    [keys |-> nodes,
     at   |-> [id \in Range(nodes) |->
                 LET es == SelectSeq(edges, LAMBDA e : e[2] = id /\ e[1] # id)
                 IN  [k \in 1..Len(es) |-> es[k][1]]]]

build_reverse_adjacency_list(nodes, edges) ==
    [keys |-> nodes,
     at   |-> [id \in Range(nodes) |->
                 LET es == SelectSeq(edges, LAMBDA e : e[2] = id)
                 IN  [k \in 1..Len(es) |-> es[k][1]]]]

find_start_nodes(reverse_adj) ==
    SelectSeq(reverse_adj.keys, LAMBDA id : Len(reverse_adj.at[id]) = 0)

\* The inner "for child in adj_list[current]" of Kahn's loop, from child k on.
\* st = [queue, in_degree, error]; in_degree[child] on an id that is no key
\* raises KeyError.
RECURSIVE KahnChildren(_, _, _)
\* Mutant: a child is enqueued as soon as one parent is done.
KahnChildrenEager(children, k, st) ==
    IF k > Len(children) \/ st.error # "none" THEN st
    ELSE LET child == children[k] IN
         IF child \notin DOMAIN st.in_degree
         THEN [st EXCEPT !.error = "KeyError"]
         ELSE LET deg == st.in_degree[child] - 1 IN
              KahnChildren(children, k + 1,
                  [queue     |-> Append(st.queue, child),
                   in_degree |-> [st.in_degree EXCEPT ![child] = deg],
                   error     |-> "none"])

KahnChildren(children, k, st) ==
    IF k > Len(children) \/ st.error # "none" THEN st
    ELSE LET child == children[k] IN
         IF child \notin DOMAIN st.in_degree
         THEN [st EXCEPT !.error = "KeyError"]
         ELSE LET deg == st.in_degree[child] - 1 IN
              KahnChildren(children, k + 1,
                  [queue     |-> IF deg = 0 THEN Append(st.queue, child) ELSE st.queue,
                   in_degree |-> [st.in_degree EXCEPT ![child] = deg],
                   error     |-> "none"])

\* "while queue:" of topological_sort; fuel bounds the mutants' runs only
\* (the loop itself pops every node at most once).
RECURSIVE KahnLoop(_, _, _, _, _)
KahnLoop(queue, sorted_nodes, in_degree, adj_list, fuel) ==
    IF queue = <<>> \/ fuel = 0 THEN [error |-> "none", sorted_nodes |-> sorted_nodes]
    ELSE LET current == Head(queue)
             st == KahnChildren(adj_list.at[current], 1,
                       [queue |-> Tail(queue), in_degree |-> in_degree, error |-> "none"])
         IN  IF st.error # "none"
             THEN [error |-> st.error, sorted_nodes |-> <<>>]
             ELSE KahnLoop(st.queue, Append(sorted_nodes, current), st.in_degree,
                           adj_list, fuel - 1)

\* Mutant: the final length check is missing, a partial order is returned.
KahnFinishNoCheck(nodes, r) == r

\* Lines 139-148: the length check after the loop.
KahnFinish(nodes, r) ==
    IF r.error # "none" THEN r
    ELSE IF Len(r.sorted_nodes) # Len(nodes)
         THEN [error |-> "CycleError", sorted_nodes |-> <<>>]
         ELSE r

topological_sort(nodes, edges) ==
    IF nodes = <<>> THEN [error |-> "none", sorted_nodes |-> <<>>]
    ELSE LET adj_list    == build_adjacency_list(nodes, edges)
             reverse_adj == build_reverse_adjacency_list(nodes, edges)
             in_degree   == [id \in Range(nodes) |-> Len(reverse_adj.at[id])]
             queue       == SelectSeq(nodes, LAMBDA id : in_degree[id] = 0)
         IN  IF queue = <<>>
             THEN [error |-> "NoStartNodeError", sorted_nodes |-> <<>>]
             ELSE KahnFinish(nodes,
                      KahnLoop(queue, <<>>, in_degree, adj_list,
                               Len(nodes) + Len(edges) + 1))

\* dfs(node_id) of detect_cycles, lines 172-188, on st = [visited, rec_stack,
\* found]; DfsNeighbors is its "for neighbor in adj_list.get(node_id, [])"
\* from neighbor k on.
RECURSIVE Dfs(_, _, _)
RECURSIVE DfsNeighbors(_, _, _, _)
DfsNeighbors(node_id, k, st, adj_list) ==
    LET neighbors == IF node_id \in DOMAIN adj_list.at
                     THEN adj_list.at[node_id] ELSE <<>>
    IN  IF k > Len(neighbors)
        THEN [st EXCEPT !.rec_stack = @ \ {node_id}]
        ELSE LET neighbor == neighbors[k] IN
             IF neighbor \notin st.visited
             THEN LET r == Dfs(neighbor, st, adj_list) IN
                  IF r.found THEN r ELSE DfsNeighbors(node_id, k + 1, r, adj_list)
             ELSE IF neighbor \in st.rec_stack
             THEN [st EXCEPT !.found = TRUE]
             ELSE DfsNeighbors(node_id, k + 1, st, adj_list)

Dfs(node_id, st, adj_list) ==
    DfsNeighbors(node_id, 1,
                 [visited   |-> st.visited \cup {node_id},
                  rec_stack |-> st.rec_stack \cup {node_id},
                  found     |-> FALSE],
                 adj_list)

\* Lines 190-196: "for node_id in adj_list.keys()", from key k on.
RECURSIVE DfsRoots(_, _, _)
DfsRoots(k, st, adj_list) ==
    IF k > Len(adj_list.keys) THEN FALSE
    ELSE LET node_id == adj_list.keys[k] IN
         IF node_id \in st.visited THEN DfsRoots(k + 1, st, adj_list)
         ELSE LET r == Dfs(node_id, st, adj_list) IN
              IF r.found THEN TRUE ELSE DfsRoots(k + 1, r, adj_list)

detect_cycles(nodes, edges) ==
    IF nodes = <<>> THEN FALSE
    ELSE DfsRoots(1, [visited |-> {}, rec_stack |-> {}, found |-> FALSE],
                  build_adjacency_list(nodes, edges))

\* BFS of find_reachable_nodes; adj_list.get(current, []) for an unknown id.
RECURSIVE ReachLoop(_, _, _)
ReachLoop(queue, reachable, adj_list) ==
    IF queue = <<>> THEN reachable
    ELSE LET current == Head(queue) IN
         IF current \in reachable THEN ReachLoop(Tail(queue), reachable, adj_list)
         ELSE LET r2       == reachable \cup {current}
                  children == IF current \in DOMAIN adj_list.at
                              THEN adj_list.at[current] ELSE <<>>
              IN  ReachLoop(Tail(queue) \o SelectSeq(children, LAMBDA c : c \notin r2),
                            r2, adj_list)

find_reachable_nodes(start_nodes, adj_list) == ReachLoop(start_nodes, {}, adj_list)

\* What validate_graph gives: error = "none" and the four result fields, or
\* the name of the exception raised (the fields are then empty).
Raised(err) ==
    [error |-> err, start_nodes |-> <<>>, sorted_nodes |-> <<>>,
     reachable_nodes |-> {}, unreachable_nodes |-> {}]

\* Lines 269-312 of validate_graph: the four checks on a non-empty graph.
validate_graph_checks(nodes, edges, allow_disconnected) ==
    LET adj_list    == build_adjacency_list(nodes, edges)
        reverse_adj == build_reverse_adjacency_list(nodes, edges)
        start_nodes == find_start_nodes(reverse_adj)
    IN  IF start_nodes = <<>> THEN Raised("NoStartNodeError")
        ELSE LET ts == topological_sort(nodes, edges) IN
             IF ts.error # "none" THEN Raised(ts.error)
             ELSE LET reachable   == find_reachable_nodes(start_nodes, adj_list)
                      unreachable == Range(nodes) \ reachable
                  IN  IF unreachable # {} /\ ~allow_disconnected
                      THEN Raised("UnreachableNodeError")
                      ELSE IF ~allow_disconnected
                              /\ Cardinality(reachable) # Len(nodes)
                           THEN Raised("DisconnectedGraphError")
                           ELSE [error             |-> "none",
                                 start_nodes       |-> start_nodes,
                                 sorted_nodes      |-> ts.sorted_nodes,
                                 reachable_nodes   |-> reachable,
                                 unreachable_nodes |-> unreachable]

\* Mutant: no early return for the empty node list.
validate_graph_without_empty_case(nodes, edges, allow_disconnected) ==
    validate_graph_checks(nodes, edges, allow_disconnected)

validate_graph(nodes, edges, allow_disconnected) ==
    IF nodes = <<>> THEN Raised("none")
    ELSE validate_graph_checks(nodes, edges, allow_disconnected)

\* ------------------------------------------------- NodeHandlerService
\* Mutant: the vector search handler is registered under vector_search.
handlers_vector_search ==
    [llm_call      |-> "LLMCallHandler",
     http_request  |-> "HTTPRequestHandler",
     vector_search |-> "FAISSSearchHandler",
     db_write      |-> "DBWriteHandler"]

\* _handlers, the class-level registry as the module defines it.
handlers ==
    [llm_call     |-> "LLMCallHandler",
     http_request |-> "HTTPRequestHandler",
     faiss_search |-> "FAISSSearchHandler",
     db_write     |-> "DBWriteHandler"]

\* Values of Node.node_type, a String(50) column: the registered tags, the
\* tag vector_search, and one tag standing for every other string.
NodeTypes == DOMAIN handlers \cup {"vector_search", "other_type"}

\* Mutant: an unknown type falls back to the LLM handler.
get_handler_with_default(registry, node_type) ==
    [error |-> "none",
     handler_class |-> IF node_type \in DOMAIN registry
                       THEN registry[node_type] ELSE "LLMCallHandler"]

\* NodeHandlerService.get_handler: the handler class of a registered type,
\* ValueError("Unknown node type") otherwise.
get_handler(registry, node_type) ==
    IF node_type \in DOMAIN registry
    THEN [error |-> "none", handler_class |-> registry[node_type]]
    ELSE [error |-> "ValueError", handler_class |-> "none"]

\* ------------------------------------------------------- node handlers
\* A config is a dict from field names to JSON values; a JSON value is a
\* record [kind, n, s]: a string, an int, a float (n in tenths), or a dict
\* with n entries.
StrV(x)   == [kind |-> "str",   n |-> 0, s |-> x]
IntV(k)   == [kind |-> "int",   n |-> k, s |-> ""]
FloatV(k) == [kind |-> "float", n |-> k, s |-> ""]
DictV(k)  == [kind |-> "dict",  n |-> k, s |-> ""]
NullV     == [kind |-> "null",  n |-> 0, s |-> ""]

\* config.get(field, default)
Get(config, field, default) ==
    IF field \in DOMAIN config THEN config[field] ELSE default

\* str.upper() on the method and operation names that are drawn.
Upper(x) ==
    CASE x = "get"    -> "GET"
      [] x = "insert" -> "INSERT"
      [] OTHER        -> x

HandlerResult(err, calls) == [error |-> err, calls |-> calls]

\* How a call to a collaborator ends: it answers, it raises, or it times out.
ExternalOutcomes == {"ok", "raise", "timeout"}
\* How rendering the templated fields ends: str.format may raise ValueError.
RenderOutcomes == {"ok", "ValueError"}

\* LLMCallHandler.execute (llm_call.py:42-104).
LLMCallHandler_execute(config, ext) ==
    IF "prompt_template" \notin DOMAIN config
    THEN HandlerResult("HandlerExecutionError", <<>>)
    ELSE LET temperature == Get(config, "temperature", FloatV(7))
             max_tokens  == Get(config, "max_tokens", IntV(256))
         IN  IF \/ temperature.kind \notin {"int", "float"}
                \/ (temperature.kind = "int" /\ temperature.n \notin 0..2)
                \/ (temperature.kind = "float" /\ temperature.n \notin 0..20)
             THEN HandlerResult("HandlerExecutionError", <<>>)
             ELSE IF max_tokens.kind # "int" \/ max_tokens.n <= 0
             THEN HandlerResult("HandlerExecutionError", <<>>)
             ELSE HandlerResult(IF ext = "ok" THEN "none" ELSE "HandlerExecutionError",
                                <<"generate_with_template">>)

ALLOWED_METHODS == {"GET", "POST", "PUT", "DELETE", "PATCH", "HEAD", "OPTIONS"}

\* HTTPRequestHandler.execute (http_request.py:39-123).
HTTPRequestHandler_execute(config, rendered, ext) ==
    IF "url" \notin DOMAIN config
    THEN HandlerResult("HandlerExecutionError", <<>>)
    ELSE LET method == Upper(Get(config, "method", StrV("GET")).s) IN
         IF method \notin ALLOWED_METHODS
         THEN HandlerResult("HandlerExecutionError", <<>>)
         ELSE IF rendered # "ok"
         THEN HandlerResult("HandlerExecutionError", <<>>)
         ELSE HandlerResult(IF ext = "ok" THEN "none" ELSE "HandlerExecutionError",
                            <<"request">>)

\* http_request.py 64 and 72-73: timeout = config.get("timeout", 30) is given
\* to httpx.AsyncClient, for which None means that no timeout applies.
HTTPRequestHandler_timeout(config) ==
    LET timeout == Get(config, "timeout", IntV(30)) IN
    IF timeout.kind = "null" THEN None ELSE Some(timeout.n)

\* llm_service.py 17 and 92: httpx.AsyncClient(timeout=self.timeout).
LLMService_timeout == Some(60)

\* Mutant: top_k = 0 is let through.
valid_top_k_or_zero(top_k) == top_k.kind = "int" /\ top_k.n >= 0

\* faiss_search.py:65: isinstance(top_k, int) and top_k > 0.
valid_top_k(top_k) == top_k.kind = "int" /\ top_k.n > 0

\* FAISSSearchHandler.execute (faiss_search.py:37-133).
FAISSSearchHandler_execute(config, available, rendered, ext) ==
    IF "collection_name" \notin DOMAIN config \/ "query" \notin DOMAIN config
    THEN HandlerResult("HandlerExecutionError", <<>>)
    ELSE IF ~available
    THEN HandlerResult("HandlerExecutionError", <<"is_available">>)
    ELSE IF ~valid_top_k(Get(config, "top_k", IntV(5)))
    THEN HandlerResult("HandlerExecutionError", <<"is_available">>)
    ELSE IF /\ "score_threshold" \in DOMAIN config
            /\ \/ config["score_threshold"].kind \notin {"int", "float"}
               \/ (config["score_threshold"].kind = "int"
                   /\ config["score_threshold"].n \notin 0..1)
               \/ (config["score_threshold"].kind = "float"
                   /\ config["score_threshold"].n \notin 0..10)
    THEN HandlerResult("HandlerExecutionError", <<"is_available">>)
    ELSE IF rendered # "ok"
    THEN HandlerResult("HandlerExecutionError", <<"is_available">>)
    ELSE HandlerResult(IF ext = "ok" THEN "none" ELSE "HandlerExecutionError",
                       <<"is_available", "search">>)

ALLOWED_OPERATIONS == {"INSERT", "UPDATE", "DELETE", "SELECT"}

\* DBWriteHandler._render_dict_template (db_write.py:392-404): a value that is
\* not a dict gives the empty dict; a dict keeps its keys.
DBWriteHandler_render_dict_template(data) ==
    IF data.kind # "dict" THEN DictV(0) ELSE data

\* The statement that reaches db.execute: the raw text (db_write.py:307-358),
\* or the statement _execute_update / _execute_delete / _execute_select build
\* (174-185, 226-235), with a WHERE clause of one condition per key of the
\* rendered where dict and no WHERE clause when that dict is empty.
DBWriteHandler_statement(config) ==
    IF "raw_sql" \in DOMAIN config
    THEN [operation |-> "raw_sql", where_conditions |-> 0]
    ELSE LET where == DBWriteHandler_render_dict_template(Get(config, "where", DictV(0)))
         IN  [operation        |-> Upper(config["operation"].s),
              where_conditions |-> IF Upper(config["operation"].s) = "INSERT"
                                   THEN 0 ELSE where.n]

\* DBWriteHandler._execute_raw_sql (db_write.py:307-358).
DBWriteHandler_execute_raw_sql(config, rendered, ext) ==
    IF config["raw_sql"].s = ""
    THEN HandlerResult("HandlerExecutionError", <<>>)
    ELSE IF rendered # "ok"
    THEN HandlerResult("HandlerExecutionError", <<>>)
    ELSE HandlerResult(IF ext = "ok" THEN "none" ELSE "HandlerExecutionError",
                       <<"execute">>)

\* DBWriteHandler._execute_structured (db_write.py:55-101) with the values
\* check of _execute_insert / _execute_update (lines 110-114, 168-172).
DBWriteHandler_execute_structured(config, rendered, ext) ==
    IF "operation" \notin DOMAIN config \/ "table" \notin DOMAIN config
    THEN HandlerResult("HandlerExecutionError", <<>>)
    ELSE LET operation == Upper(config["operation"].s) IN
         IF operation \notin ALLOWED_OPERATIONS
         THEN HandlerResult("HandlerExecutionError", <<>>)
         ELSE IF rendered # "ok"
         THEN HandlerResult("HandlerExecutionError", <<>>)
         ELSE IF operation \in {"INSERT", "UPDATE"}
                 /\ Get(config, "values", DictV(0)).n = 0
         THEN HandlerResult("HandlerExecutionError", <<>>)
         ELSE HandlerResult(IF ext = "ok" THEN "none" ELSE "HandlerExecutionError",
                            <<"execute">>)

\* DBWriteHandler.execute (db_write.py:38-53).
DBWriteHandler_execute(config, rendered, ext) ==
    IF "raw_sql" \in DOMAIN config
    THEN DBWriteHandler_execute_raw_sql(config, rendered, ext)
    ELSE DBWriteHandler_execute_structured(config, rendered, ext)

\* --------------------------------------------------- template rendering
\* A string is a sequence of characters. A context is a dict whose keys are
\* one-character names and whose values are strings.
RenderResult(err, out) == [error |-> err, out |-> out]

\* Position of the first brace of t at or after i (0 when there is none).
NextBrace(t, i) ==
    IF \E j \in i..Len(t) : t[j] \in {"{", "}"}
    THEN CHOOSE j \in i..Len(t) :
            t[j] \in {"{", "}"} /\ \A m \in i..(j - 1) : t[m] \notin {"{", "}"}
    ELSE 0

\* Python's str.format(**context) from character i on: literal text, doubled
\* braces, and replacement fields whose name is looked up in the keywords.
\* "{}" asks for positional argument 0 (IndexError), a lone or unclosed brace
\* and a brace inside a field name are ValueErrors, an unknown name is a
\* KeyError.
RECURSIVE FormatFrom(_, _, _, _)
FormatFrom(t, i, context, out) ==
    IF i > Len(t) THEN RenderResult("none", out)
    ELSE IF t[i] \notin {"{", "}"} THEN FormatFrom(t, i + 1, context, Append(out, t[i]))
    ELSE IF i < Len(t) /\ t[i + 1] = t[i]
    THEN FormatFrom(t, i + 2, context, Append(out, t[i]))
    ELSE IF t[i] = "}" \/ i = Len(t) THEN RenderResult("ValueError", <<>>)
    ELSE LET j == NextBrace(t, i + 1) IN
         IF j = 0 \/ t[j] = "{" THEN RenderResult("ValueError", <<>>)
         ELSE LET name == SubSeq(t, i + 1, j - 1) IN
              IF name = <<>> THEN RenderResult("IndexError", <<>>)
              ELSE IF Len(name) # 1 \/ name[1] \notin Range(context.keys)
              THEN RenderResult("KeyError", <<>>)
              ELSE FormatFrom(t, j + 1, context, out \o context.at[name[1]])

str_format(template, context) == FormatFrom(template, 1, context, <<>>)

\* _render_template of the HTTP, DB and FAISS handlers on a str: format, and
\* the template itself when format raises KeyError; other exceptions escape.
render_template(template, context) ==
    LET r == str_format(template, context) IN
    IF r.error = "KeyError" THEN RenderResult("none", template) ELSE r

HTTPRequestHandler_render_template(template, context) ==
    render_template(template, context)
DBWriteHandler_render_template(template, context) ==
    render_template(template, context)
FAISSSearchHandler_render_template(template, context) ==
    render_template(template, context)

\* Python's str.replace(old, new) from character i on: the occurrences of old
\* found left to right, not overlapping.
RECURSIVE ReplaceFrom(_, _, _, _)
ReplaceFrom(t, i, old, new) ==
    IF i > Len(t) THEN <<>>
    ELSE IF i + Len(old) - 1 <= Len(t) /\ SubSeq(t, i, i + Len(old) - 1) = old
    THEN new \o ReplaceFrom(t, i + Len(old), old, new)
    ELSE <<t[i]>> \o ReplaceFrom(t, i + 1, old, new)

str_replace(t, old, new) == ReplaceFrom(t, 1, old, new)

\* LLMService.generate_with_template, lines 170-177: for key, value in
\* variables.items(): rendered_prompt = rendered_prompt.replace("{key}", value).
RECURSIVE ReplaceEach(_, _, _)
ReplaceEach(rendered_prompt, variables, k) ==
    IF k > Len(variables.keys) THEN rendered_prompt
    ELSE ReplaceEach(
             str_replace(rendered_prompt, <<"{", variables.keys[k], "}">>,
                         variables.at[variables.keys[k]]),
             variables, k + 1)

LLMService_render(template, variables) ==
    RenderResult("none", ReplaceEach(template, variables, 1))

\* ---------------------------------------------------------------- state
VARIABLES
    \* a direct call of GraphService.validate_graph
    g_nodes,          \* the node list
    g_edges,          \* the edge list
    g_allow,          \* allow_disconnected
    g_pc,             \* "ready" | "validated" | "unused"
    g_result,         \* what validate_graph gave
    \* one call of ExecutionService.execute_workflow
    pc,               \* where the call stands
    outcome,          \* how the call ended ("pending" while it runs)
    input_data,       \* the input_data argument (None or a payload)
    nodes,            \* list_nodes(...), once loaded
    edges,            \* list_edges(...), from load until validation has read it
    execution_order,  \* validation["sorted_nodes"]
    run_id,           \* workflow_run.id (0 before create_run)
    order_index,      \* enumerate(execution_order) index, 0-based
    node_outputs,     \* context["node_outputs"]
    cur_ne,           \* node_execution.id of the node in progress
    output,           \* what the handler returned for the node in progress
    exc,              \* the exception being handled
    result_output,    \* result["output"] of _execute_nodes
    \* the persistence layer
    db_runs,          \* table workflow_runs
    db_node_execs,    \* table node_executions
    now,              \* logical clock behind datetime.utcnow()
    faults,           \* persistence operations that raised so far
    \* history
    dispatched,       \* handler dispatches: position, node, inputs, result
    \* a direct call of NodeHandlerService.execute_node
    h_handlers,       \* NodeHandlerService._handlers
    h_node_type,      \* the node_type argument
    h_config,         \* the config argument (a dict)
    h_pc,             \* "idle" | "execute" | "awaiting" | "done" | "unused"
    h_handler,        \* class of the handler instance ("none" before get_handler)
    h_calls,          \* calls made to the handler's collaborators, in order
    h_result,         \* "pending" | "returned" | name of the exception raised
    h_timeout,        \* timeout of the HTTP client that awaits an answer (None: no timeout)
    h_statement,      \* the SQL statement db_write executed (None: no statement)
    \* one rendering of a string template by one handler
    r_handler,        \* the handler class that renders
    r_template,       \* the template, a string (sequence of characters)
    r_context,        \* the template context / variables, a dict
    r_pc,             \* "ready" | "rendered" | "unused"
    r_result,         \* [error, out]: what the rendering gave
    \* two concurrent execute_workflow calls on the tables above
    calls,            \* per call: pc, execution_order, order_index, run id, record id
    contexts,         \* per context dict: context["node_outputs"]
    handed,           \* history: the previous_outputs handed to each dispatch
    created_by,       \* history: the call that created each NodeExecution
    \* concurrent VectorCollectionService.add_documents calls on one collection
    v_calls,          \* per call: pc, documents, the record and the index it holds
    v_loop,           \* the call that holds the event loop (0: the loop is free)
    v_disk,           \* the index saved under base_path / collection_name
    v_cache,          \* VectorService._index_cache[collection_name]
    v_objects,        \* the FAISS objects in memory: the documents of each
    v_count,          \* vector_collections.document_count of the record
    v_count0,         \* history: document_count before the calls
    \* direct calls of GraphService.topological_sort and detect_cycles
    g_sort,           \* what topological_sort gave (None before the call)
    g_cycles          \* what detect_cycles returned (None before the call)

hvars == <<h_handlers, h_node_type, h_config, h_pc, h_handler, h_calls, h_result,
           h_timeout, h_statement>>
rvars == <<r_handler, r_template, r_context, r_pc, r_result>>
kvars == <<calls, contexts, handed, created_by>>
vvars == <<v_calls, v_loop, v_disk, v_cache, v_objects, v_count, v_count0>>
svars == <<g_sort, g_cycles>>
wvars == <<vvars, svars>>
ovars == <<hvars, rvars, kvars, wvars>>
gvars == <<g_nodes, g_edges, g_allow, g_pc, g_result>>
cvars == <<pc, outcome, input_data, nodes, edges, execution_order, run_id,
           order_index, node_outputs, cur_ne, output, exc, result_output>>
dvars == <<db_runs, db_node_execs, now, faults>>
vars  == <<gvars, cvars, dvars, dispatched, ovars>>

NodeLists == {[i \in 1..n |-> i] : n \in 0..MaxNodes}
EdgeLists == SeqUpTo(NodeIds \X NodeIds, MaxEdges)

\* The empty dict a handler-less run falls back to, and what handlers return.
EmptyDict == [node |-> 0, val |-> "empty"]
OutputValues == {"x", "y"}
NoException == [kind |-> "none", node |-> 0, cause |-> "none"]

GraphIdle ==
    /\ g_nodes = <<>> /\ g_edges = <<>> /\ g_allow = FALSE
    /\ g_pc = "unused" /\ g_result = Raised("none")

CallStart ==
    /\ pc = "load" /\ outcome = "pending"
    /\ nodes = <<>> /\ edges = <<>> /\ execution_order = <<>>
    /\ run_id = 0 /\ order_index = 0 /\ node_outputs = <<>>
    /\ cur_ne = 0 /\ output = EmptyDict /\ exc = NoException
    /\ result_output = EmptyDict
    /\ db_runs = <<>> /\ db_node_execs = <<>> /\ now = 0 /\ faults = 0
    /\ dispatched = <<>>

HandlersIdle ==
    /\ h_handlers = handlers /\ h_node_type = "llm_call" /\ h_config = <<>>
    /\ h_pc = "unused" /\ h_handler = "none" /\ h_calls = <<>>
    /\ h_result = "pending" /\ h_timeout = None /\ h_statement = None

RenderIdle ==
    /\ r_handler = "none" /\ r_template = <<>>
    /\ r_context = [keys |-> <<>>, at |-> <<>>]
    /\ r_pc = "unused" /\ r_result = [error |-> "none", out |-> <<>>]

\* The calls that may execute concurrently.
Calls == {1, 2}

VectorCallIdle == [pc |-> "unused", documents |-> 0, document_count |-> 0,
                   vectorstore |-> 0, added |-> FALSE, status |-> "pending",
                   total_documents |-> 0]

VectorIdle ==
    /\ g_sort = None /\ g_cycles = None
    /\ v_calls = [c \in Calls |-> VectorCallIdle]
    /\ v_loop = 0 /\ v_disk = None /\ v_cache = 0 /\ v_objects = <<>>
    /\ v_count = None /\ v_count0 = None

CallIdle == [pc |-> "unused", execution_order |-> <<>>, order_index |-> 0,
             run_id |-> 0, cur_ne |-> 0, output |-> None]

RunsIdle ==
    /\ calls = [c \in Calls |-> CallIdle]
    /\ contexts = [c \in Calls |-> <<>>]
    /\ handed = <<>> /\ created_by = <<>>

InitGraph ==
    /\ HandlersIdle
    /\ RenderIdle
    /\ VectorIdle
    /\ RunsIdle
    /\ g_nodes \in NodeLists
    /\ g_edges \in EdgeLists
    /\ g_allow \in BOOLEAN
    /\ g_pc = "ready"
    /\ g_result = Raised("none")
    /\ input_data = None
    /\ CallStart

\* result = GraphService.validate_graph(nodes, edges, allow_disconnected)
ValidateGraphCall ==
    /\ g_pc = "ready"
    /\ g_result' = validate_graph(g_nodes, g_edges, g_allow)
    /\ g_pc' = "validated"
    /\ UNCHANGED <<g_nodes, g_edges, g_allow, cvars, dvars, dispatched, ovars>>

NextGraph == ValidateGraphCall

SpecGraph == InitGraph /\ [][NextGraph]_vars

\* Direct calls of the two graph algorithms on one node list and edge list.
InitSort ==
    /\ HandlersIdle
    /\ RenderIdle
    /\ RunsIdle
    /\ v_calls = [c \in Calls |-> VectorCallIdle]
    /\ v_loop = 0 /\ v_disk = None /\ v_cache = 0 /\ v_objects = <<>>
    /\ v_count = None /\ v_count0 = None
    /\ g_nodes \in NodeLists
    /\ g_edges \in EdgeLists
    /\ g_allow = FALSE /\ g_pc = "unused" /\ g_result = Raised("none")
    /\ g_sort = None /\ g_cycles = None
    /\ input_data = None
    /\ CallStart

\* sorted_nodes = GraphService.topological_sort(nodes, edges)
TopologicalSortCall ==
    /\ g_sort = None
    /\ g_sort' = Some(topological_sort(g_nodes, g_edges))
    /\ UNCHANGED <<gvars, g_cycles, vvars, hvars, rvars, kvars, cvars, dvars, dispatched>>

\* has_cycle = GraphService.detect_cycles(nodes, edges)
DetectCyclesCall ==
    /\ g_cycles = None
    /\ g_cycles' = Some(detect_cycles(g_nodes, g_edges))
    /\ UNCHANGED <<gvars, g_sort, vvars, hvars, rvars, kvars, cvars, dvars, dispatched>>

NextSort == TopologicalSortCall \/ DetectCyclesCall

SpecSort == InitSort /\ [][NextSort]_vars

\* ------------------------------------------------------- persistence
\* WorkflowRunService.create_run: the record it adds.
new_run(input, t) ==
    [status |-> "running", input_data |-> IF input = None THEN Some("{}") ELSE input,
     output_data |-> None, error_message |-> None,
     started_at |-> Some(t), completed_at |-> None]

\* WorkflowRunService.update_run_status: the record it commits.
update_run_status(run, status, output_data, error_message, t) ==
    LET r1 == [run EXCEPT !.status = status]
        r2 == IF output_data # None THEN [r1 EXCEPT !.output_data = output_data] ELSE r1
        r3 == IF error_message # None THEN [r2 EXCEPT !.error_message = error_message] ELSE r2
    IN  IF status \in {"completed", "failed"}
        THEN [r3 EXCEPT !.completed_at = Some(t)] ELSE r3

\* NodeRunService.create_node_run: the record it adds.
new_node_run(workflow_run_id, node_id, execution_order_, t) ==
    [workflow_run_id |-> workflow_run_id, node_id |-> node_id, status |-> "running",
     execution_order |-> execution_order_, output_data |-> None,
     error_message |-> None, started_at |-> Some(t), completed_at |-> None]

\* Mutant: the update writes the payloads but leaves the status column alone.
update_node_run_unmarked(ne, status, output_data, error_message, t) ==
    LET r2 == IF output_data # None THEN [ne EXCEPT !.output_data = output_data] ELSE ne
    IN  IF error_message # None THEN [r2 EXCEPT !.error_message = error_message] ELSE r2

\* NodeRunService.update_node_run: the record it commits.
update_node_run(ne, status, output_data, error_message, t) ==
    LET r1 == [ne EXCEPT !.status = status]
        r2 == IF output_data # None THEN [r1 EXCEPT !.output_data = output_data] ELSE r1
        r3 == IF error_message # None THEN [r2 EXCEPT !.error_message = error_message] ELSE r2
    IN  IF status \in {"completed", "failed"}
        THEN [r3 EXCEPT !.completed_at = Some(t)] ELSE r3

\* How a write (select / add, commit, refresh) may end: the collaborator may
\* raise before the commit took effect or after it (in the refresh).
WriteOutcomes ==
    {"ok"} \cup (IF faults < MaxFaults
                 THEN {"raise_before_commit", "raise_after_commit"} ELSE {})
\* How a read (db.execute of a select) may end.
ReadOutcomes == {"ok"} \cup (IF faults < MaxFaults THEN {"raise"} ELSE {})
Committed(o) == o \in {"ok", "raise_after_commit"}
PersistenceError == [kind |-> "persistence", node |-> 0, cause |-> "persistence"]

\* --------------------------------------------------- ExecutionService
\* What list_edges can return for a node list: edges between nodes of the
\* workflow (create_edge checks both ends), one per ordered pair (uq_source_target).
WorkflowEdgeLists(ns) ==
    {es \in SeqUpTo(Range(ns) \X Range(ns), MaxEdges) :
        \A i, j \in 1..Len(es) : i # j => es[i] # es[j]}

GraphValidationErrors ==
    {"CycleError", "NoStartNodeError", "UnreachableNodeError", "DisconnectedGraphError"}

\* Mutant: the run record is created before the graph is validated.
execute_workflow_steps_run_first == <<"load", "create_run", "validate", "loop">>

\* The straight-line order of execute_workflow up to the node loop.
execute_workflow_steps == <<"load", "validate", "create_run", "loop">>

StepAfter(step) == execute_workflow_steps[IndexOf(execute_workflow_steps, step) + 1]

Finish(how) == pc' = "done" /\ outcome' = how

\* Lines 58-73: get_workflow, list_nodes, list_edges and the two rejections.
LoadWorkflow ==
    /\ pc = "load"
    /\ \E found \in BOOLEAN :
       \E ns \in (IF found THEN NodeLists ELSE {<<>>}) :
       \E es \in (IF found THEN WorkflowEdgeLists(ns) ELSE {<<>>}) :
          /\ nodes' = ns
          /\ edges' = es
          /\ IF ~found THEN Finish("not_found")
             ELSE IF ns = <<>> THEN Finish("no_nodes")
             ELSE pc' = StepAfter("load") /\ outcome' = outcome
    /\ UNCHANGED <<gvars, ovars, input_data, execution_order, run_id, order_index,
                   node_outputs, cur_ne, output, exc, result_output, dvars, dispatched>>

\* Lines 75-85: validate_graph(nodes, edges, allow_disconnected=False); a
\* GraphValidationError becomes HTTP 400. edges is not read again afterwards.
ValidateStep ==
    /\ pc = "validate"
    /\ LET validation == validate_graph(nodes, edges, FALSE) IN
       IF validation.error \in GraphValidationErrors
       THEN Finish("invalid_graph") /\ UNCHANGED <<execution_order, edges>>
       ELSE IF validation.error # "none"
       THEN Finish("unhandled") /\ UNCHANGED <<execution_order, edges>>
       ELSE /\ execution_order' = validation["sorted_nodes"]
            /\ edges' = <<>>
            /\ pc' = StepAfter("validate") /\ outcome' = outcome
    /\ UNCHANGED <<gvars, ovars, input_data, nodes, run_id, order_index, node_outputs,
                   cur_ne, output, exc, result_output, dvars, dispatched>>

\* Lines 87-93: WorkflowRunService.create_run, outside the try block.
CreateRun ==
    /\ pc = "create_run"
    /\ \E o \in WriteOutcomes :
          /\ db_runs' = IF Committed(o)
                        THEN Append(db_runs, new_run(input_data, now)) ELSE db_runs
          /\ faults' = IF o = "ok" THEN faults ELSE faults + 1
          /\ IF o = "ok"
             THEN run_id' = Len(db_runs) + 1 /\ pc' = StepAfter("create_run")
                  /\ outcome' = outcome
             ELSE run_id' = run_id /\ Finish("unhandled")
    /\ now' = now + 1
    /\ UNCHANGED <<gvars, ovars, input_data, nodes, edges, execution_order, order_index,
                   node_outputs, cur_ne, output, exc, result_output,
                   db_node_execs, dispatched>>

\* Lines 201-212: the next node of the order and its NodeExecution record.
StartNode ==
    /\ pc = "loop"
    /\ order_index < Len(execution_order)
    /\ LET node_id == execution_order[order_index + 1] IN
       \E o \in WriteOutcomes :
          /\ db_node_execs' =
                IF Committed(o)
                THEN Append(db_node_execs, new_node_run(run_id, node_id, order_index, now))
                ELSE db_node_execs
          /\ faults' = IF o = "ok" THEN faults ELSE faults + 1
          /\ IF o = "ok"
             THEN cur_ne' = Len(db_node_execs) + 1 /\ pc' = "dispatch" /\ exc' = exc
             ELSE cur_ne' = cur_ne /\ pc' = "mark_failed" /\ exc' = PersistenceError
    /\ now' = now + 1
    /\ UNCHANGED <<gvars, ovars, outcome, input_data, nodes, edges, execution_order, run_id,
                   order_index, node_outputs, output, result_output, db_runs, dispatched>>

\* Mutant: the handler gets the workflow input and the user, no outputs.
handler_inputs_without_outputs(input, outputs) ==
    [workflow_input   |-> IF input = None THEN Some("{}") ELSE input,
     previous_outputs |-> <<>>,
     user_id          |-> "user"]

\* Lines 267-272 of _execute_single_node: the inputs handed to the handler.
handler_inputs(input, outputs) ==
    [workflow_input   |-> IF input = None THEN Some("{}") ELSE input,
     previous_outputs |-> outputs,
     user_id          |-> "user"]

\* Lines 214-222 and 232: _execute_single_node -> NodeHandlerService.execute_node.
\* node.node_type is read here for the first time (any string the column
\* holds); get_handler raises ValueError for a type that is not registered,
\* otherwise the handler returns a dict or raises.
DispatchHandler ==
    /\ pc = "dispatch"
    /\ LET node_id == execution_order[order_index + 1] IN
       \E node_type \in NodeTypes :
       LET handler == get_handler(handlers, node_type) IN
       \E res \in (IF handler.error # "none" THEN {None}
                   ELSE {None} \cup {Some([node |-> node_id, val |-> v]) : v \in OutputValues}) :
          /\ dispatched' = Append(dispatched,
                [pos |-> order_index, node |-> node_id,
                 registered |-> node_type \in DOMAIN handlers,
                 inputs |-> handler_inputs(input_data, node_outputs), result |-> res])
          /\ IF res = None
             THEN /\ exc' = [kind  |-> IF handler.error # "none"
                                       THEN handler.error ELSE "handler",
                             node  |-> node_id,
                             cause |-> "handler"]
                  /\ pc' = "mark_node_failed"
                  /\ UNCHANGED <<output, node_outputs>>
             ELSE /\ output' = res[1]
                  /\ node_outputs' = (node_id :> res[1]) @@ node_outputs
                  /\ pc' = "mark_completed"
                  /\ exc' = exc
    /\ UNCHANGED <<gvars, ovars, outcome, input_data, nodes, edges, execution_order, run_id,
                   order_index, cur_ne, result_output, dvars>>

\* Lines 224-230: update_node_run(status="completed", output_data=output).
MarkNodeCompleted ==
    /\ pc = "mark_completed"
    /\ \E o \in WriteOutcomes :
          /\ db_node_execs' =
                IF Committed(o)
                THEN [db_node_execs EXCEPT ![cur_ne] =
                         update_node_run(@, "completed", Some(output), None, now)]
                ELSE db_node_execs
          /\ faults' = IF o = "ok" THEN faults ELSE faults + 1
          /\ IF o = "ok"
             THEN pc' = "loop" /\ order_index' = order_index + 1 /\ exc' = exc
             ELSE pc' = "mark_node_failed" /\ order_index' = order_index
                  /\ exc' = PersistenceError
    /\ now' = now + 1
    /\ UNCHANGED <<gvars, ovars, outcome, input_data, nodes, edges, execution_order, run_id,
                   node_outputs, cur_ne, output, result_output, db_runs, dispatched>>

\* Mutant: the failed node is tried again.
node_failure_retries(i, node_id, e) ==
    [pc |-> "loop", order_index |-> i, exc |-> NoException]

\* Mutant: the failure is swallowed and the loop goes on to the next node.
node_failure_continues(i, node_id, e) ==
    [pc |-> "loop", order_index |-> i + 1, exc |-> NoException]

\* Line 242: raise Exception(f"Node '{node.name}' failed: {str(e)}"), which
\* leaves the loop for the except block of execute_workflow.
node_failure_raises(i, node_id, e) ==
    [pc |-> "mark_failed", order_index |-> i,
     exc |-> [kind |-> "node_failed", node |-> node_id, cause |-> e.kind]]

\* Lines 232-242: update_node_run(status="failed", error_message=str(e)), then
\* the re-raise; an exception of the update itself leaves the loop as well.
MarkNodeFailed ==
    /\ pc = "mark_node_failed"
    /\ \E o \in WriteOutcomes :
          /\ db_node_execs' =
                IF Committed(o)
                THEN [db_node_execs EXCEPT ![cur_ne] =
                         update_node_run(@, "failed", None, Some(exc), now)]
                ELSE db_node_execs
          /\ faults' = IF o = "ok" THEN faults ELSE faults + 1
          /\ LET nxt == IF o = "ok"
                        THEN node_failure_raises(order_index,
                                 execution_order[order_index + 1], exc)
                        ELSE [pc |-> "mark_failed", order_index |-> order_index,
                              exc |-> PersistenceError]
             IN  pc' = nxt.pc /\ order_index' = nxt.order_index /\ exc' = nxt.exc
    /\ now' = now + 1
    /\ UNCHANGED <<gvars, ovars, outcome, input_data, nodes, edges, execution_order, run_id,
                   node_outputs, cur_ne, output, result_output, db_runs, dispatched>>

\* Mutant: the output of the first node of the order is taken.
final_output_first(outputs, order) ==
    IF order # <<>>
    THEN (IF order[1] \in DOMAIN outputs THEN outputs[order[1]] ELSE EmptyDict)
    ELSE EmptyDict

\* Line 245: context["node_outputs"].get(execution_order[-1], {}).
final_output(outputs, order) ==
    IF order # <<>>
    THEN (IF order[Len(order)] \in DOMAIN outputs
          THEN outputs[order[Len(order)]] ELSE EmptyDict)
    ELSE EmptyDict

\* Lines 244-250: the loop is exhausted, _execute_nodes returns its result.
FinishNodes ==
    /\ pc = "loop"
    /\ order_index >= Len(execution_order)
    /\ result_output' = final_output(node_outputs, execution_order)
    /\ pc' = "mark_success"
    /\ UNCHANGED <<gvars, ovars, outcome, input_data, nodes, edges, execution_order, run_id,
                   order_index, node_outputs, cur_ne, output, exc, dvars, dispatched>>

\* Lines 106-112: update_run_status(status="success", output_data=result["output"]).
MarkRunSuccess ==
    /\ pc = "mark_success"
    /\ \E o \in WriteOutcomes :
          /\ db_runs' =
                IF Committed(o)
                THEN [db_runs EXCEPT ![run_id] =
                         update_run_status(@, "success", Some(result_output), None, now)]
                ELSE db_runs
          /\ faults' = IF o = "ok" THEN faults ELSE faults + 1
          /\ IF o = "ok" THEN pc' = "respond" /\ exc' = exc
             ELSE pc' = "mark_failed" /\ exc' = PersistenceError
    /\ now' = now + 1
    /\ UNCHANGED <<gvars, ovars, outcome, input_data, nodes, edges, execution_order, run_id,
                   order_index, node_outputs, cur_ne, output, result_output,
                   db_node_execs, dispatched>>

\* Lines 114-151: the two selects and the response, still inside the try block.
BuildResponse ==
    /\ pc = "respond"
    /\ \E o \in ReadOutcomes :
          /\ faults' = IF o = "ok" THEN faults ELSE faults + 1
          /\ IF o = "ok" THEN Finish("returned") /\ exc' = exc
             ELSE pc' = "mark_failed" /\ outcome' = outcome /\ exc' = PersistenceError
    /\ UNCHANGED <<gvars, ovars, input_data, nodes, edges, execution_order, run_id,
                   order_index, node_outputs, cur_ne, output, result_output,
                   db_runs, db_node_execs, now, dispatched>>

\* Lines 153-165: except Exception: update_run_status(status="failed",
\* error_message=str(e)), then HTTP 500; an exception of the update escapes.
MarkRunFailed ==
    /\ pc = "mark_failed"
    /\ \E o \in WriteOutcomes :
          /\ db_runs' =
                IF Committed(o)
                THEN [db_runs EXCEPT ![run_id] =
                         update_run_status(@, "failed", None, Some(exc), now)]
                ELSE db_runs
          /\ faults' = IF o = "ok" THEN faults ELSE faults + 1
          /\ IF o = "ok" THEN Finish("failed_500") ELSE Finish("unhandled")
    /\ now' = now + 1
    /\ UNCHANGED <<gvars, ovars, input_data, nodes, edges, execution_order, run_id,
                   order_index, node_outputs, cur_ne, output, exc, result_output,
                   db_node_execs, dispatched>>

Init ==
    /\ GraphIdle
    /\ HandlersIdle
    /\ RenderIdle
    /\ VectorIdle
    /\ RunsIdle
    /\ input_data \in {None, Some("payload")}
    /\ CallStart

Next ==
    \/ LoadWorkflow
    \/ ValidateStep
    \/ CreateRun
    \/ StartNode
    \/ DispatchHandler
    \/ MarkNodeCompleted
    \/ MarkNodeFailed
    \/ FinishNodes
    \/ MarkRunSuccess
    \/ BuildResponse
    \/ MarkRunFailed

Spec == Init /\ [][Next]_vars

\* ------------------------------- direct execute_node calls (SpecHandlers)
\* The dicts over the fields of opt, each present field taking one of the
\* values opt offers for it.
Configs(opt) ==
    UNION {{c \in [D -> UNION {opt[f] : f \in D}] : \A f \in D : c[f] \in opt[f]} :
           D \in SUBSET DOMAIN opt}

LLMConfigs ==
    Configs([prompt_template |-> {StrV("p")},
             temperature     |-> {FloatV(7), FloatV(25)},
             max_tokens      |-> {IntV(256), IntV(0)}])
HTTPConfigs ==
    Configs([url     |-> {StrV("u")},
             method  |-> {StrV("get"), StrV("POST"), StrV("TRACE")},
             timeout |-> {IntV(5), NullV}])
FAISSConfigs ==
    Configs([collection_name |-> {StrV("c")},
             query           |-> {StrV("q")},
             top_k           |-> {IntV(5), IntV(0), IntV(-1), StrV("5")},
             score_threshold |-> {FloatV(5), FloatV(15)}])
DBConfigs ==
    Configs([raw_sql   |-> {StrV(""), StrV("sql")},
             operation |-> {StrV("insert"), StrV("DELETE"), StrV("UPDATE"), StrV("DROP")},
             table     |-> {StrV("t")},
             values    |-> {DictV(1)},
             where     |-> {DictV(0), DictV(2), StrV("id = 1")}])
NodeConfigs == LLMConfigs \cup HTTPConfigs \cup FAISSConfigs \cup DBConfigs

HandlerClasses == {handlers[t] : t \in DOMAIN handlers}

InitHandlers ==
    /\ GraphIdle
    /\ RenderIdle
    /\ VectorIdle
    /\ RunsIdle
    /\ input_data = None
    /\ CallStart
    /\ h_handlers = handlers
    /\ h_node_type \in NodeTypes
    /\ h_config \in NodeConfigs
    /\ h_pc = "idle" /\ h_handler = "none" /\ h_calls = <<>>
    /\ h_result = "pending" /\ h_timeout = None /\ h_statement = None

\* NodeHandlerService.register_handler(node_type, handler_class), for a type
\* that is not registered yet.
RegisterHandler ==
    /\ h_pc = "idle"
    /\ Cardinality(DOMAIN h_handlers) < Cardinality(DOMAIN handlers) + MaxRegistered
    /\ \E t \in NodeTypes \ DOMAIN h_handlers : \E c \in HandlerClasses :
          h_handlers' = (t :> c) @@ h_handlers
    /\ UNCHANGED <<gvars, wvars, cvars, dvars, dispatched, rvars, kvars, h_node_type, h_config, h_pc,
                   h_handler, h_calls, h_result, h_timeout, h_statement>>

\* execute_node, line 57: handler = cls.get_handler(node_type).
GetHandler ==
    /\ h_pc = "idle"
    /\ LET handler == get_handler(h_handlers, h_node_type) IN
       IF handler.error # "none"
       THEN h_pc' = "done" /\ h_result' = handler.error /\ h_handler' = h_handler
       ELSE h_pc' = "execute" /\ h_result' = h_result
            /\ h_handler' = handler.handler_class
    /\ UNCHANGED <<gvars, wvars, cvars, dvars, dispatched, rvars, kvars, h_handlers, h_node_type,
                   h_config, h_calls, h_timeout, h_statement>>

\* execute_node, line 58: output = await handler.execute(config, inputs).
HandlerDone(r) ==
    /\ h_pc' = "done"
    /\ h_calls' = r.calls
    /\ h_result' = IF r.error = "none" THEN "returned" ELSE r.error
    /\ h_statement' = IF "execute" \in Range(r.calls)
                      THEN Some(DBWriteHandler_statement(h_config)) ELSE h_statement
    /\ UNCHANGED <<gvars, wvars, cvars, dvars, dispatched, rvars, kvars, h_handlers, h_node_type,
                   h_config, h_handler, h_timeout>>

\* The handler has sent its request and awaits the answer of the HTTP client.
HandlerAwaits(r, timeout) ==
    /\ h_pc' = "awaiting"
    /\ h_calls' = r.calls
    /\ h_timeout' = timeout
    /\ UNCHANGED <<gvars, wvars, cvars, dvars, dispatched, rvars, kvars, h_handlers, h_node_type,
                   h_config, h_handler, h_result, h_statement>>

\* What execute gives for each way the awaited call may end.
AwaitedResult(ext) ==
    IF h_handler = "LLMCallHandler"
    THEN LLMCallHandler_execute(h_config, ext)
    ELSE HTTPRequestHandler_execute(h_config, "ok", ext)

\* llm_call.py 42-74 and llm_service.py 92-107: the checks, then the POST to
\* Ollama is awaited.
ExecuteLLMCall ==
    /\ h_pc = "execute" /\ h_handler = "LLMCallHandler"
    /\ LET r == LLMCallHandler_execute(h_config, "ok") IN
       IF r.calls = <<>>
       THEN HandlerDone(r)
       ELSE HandlerAwaits(r, LLMService_timeout)

\* http_request.py 39-84: the checks and the rendering, then client.request
\* is awaited.
ExecuteHTTPRequest ==
    /\ h_pc = "execute" /\ h_handler = "HTTPRequestHandler"
    /\ \E rendered \in RenderOutcomes :
          LET r == HTTPRequestHandler_execute(h_config, rendered, "ok") IN
          IF r.calls = <<>>
          THEN HandlerDone(r)
          ELSE HandlerAwaits(r, HTTPRequestHandler_timeout(h_config))

\* The collaborator answers, or the request fails with an error.
CollaboratorAnswers ==
    /\ h_pc = "awaiting"
    /\ \E ext \in {"ok", "raise"} : HandlerDone(AwaitedResult(ext))

\* The client's timeout expires: httpx raises TimeoutException. A client
\* without a timeout never does.
TimeoutExpires ==
    /\ h_pc = "awaiting" /\ h_timeout # None
    /\ HandlerDone(AwaitedResult("timeout"))

ExecuteFAISSSearch ==
    /\ h_pc = "execute" /\ h_handler = "FAISSSearchHandler"
    /\ \E available \in BOOLEAN : \E rendered \in RenderOutcomes :
       \E ext \in ExternalOutcomes :
          HandlerDone(FAISSSearchHandler_execute(h_config, available, rendered, ext))

ExecuteDBWrite ==
    /\ h_pc = "execute" /\ h_handler = "DBWriteHandler"
    /\ \E rendered \in RenderOutcomes : \E ext \in ExternalOutcomes :
          HandlerDone(DBWriteHandler_execute(h_config, rendered, ext))

NextHandlers ==
    \/ RegisterHandler
    \/ GetHandler
    \/ ExecuteLLMCall
    \/ ExecuteHTTPRequest
    \/ ExecuteFAISSSearch
    \/ ExecuteDBWrite
    \/ CollaboratorAnswers
    \/ TimeoutExpires

SpecHandlers == InitHandlers /\ [][NextHandlers]_vars

\* The event loop runs every coroutine that is ready and fires every timer
\* that is set; nothing obliges a collaborator to answer.
SpecHandlersLive ==
    /\ SpecHandlers
    /\ WF_vars(GetHandler)
    /\ WF_vars(ExecuteLLMCall) /\ WF_vars(ExecuteHTTPRequest)
    /\ WF_vars(ExecuteFAISSSearch) /\ WF_vars(ExecuteDBWrite)
    /\ WF_vars(TimeoutExpires)

\* ------------------------------------ rendering one template (SpecRender)
TemplateChars == {"{", "}", "a", "b"}
ContextKeys == {"a", "b"}
\* A value is plain text, or text that holds the placeholder of key b.
ContextValues == {<<"v">>, <<"{", "b", "}">>}
Templates == SeqUpTo(TemplateChars, MaxTemplateLen)

\* The dicts with keys among ContextKeys, in either insertion order; the
\* value of b is plain text.
Contexts ==
    UNION {{[keys |-> ks, at |-> f] :
               f \in {g \in [Range(ks) -> ContextValues] :
                         "b" \in Range(ks) => g["b"] = <<"v">>}} :
           ks \in {q \in SeqUpTo(ContextKeys, Cardinality(ContextKeys)) :
                      \A i, j \in 1..Len(q) : i # j => q[i] # q[j]}}

RenderingHandlers == HandlerClasses

InitRender ==
    /\ GraphIdle
    /\ VectorIdle
    /\ HandlersIdle
    /\ RunsIdle
    /\ input_data = None
    /\ CallStart
    /\ r_handler \in RenderingHandlers
    /\ r_template \in Templates
    /\ r_context \in Contexts
    /\ r_pc = "ready"
    /\ r_result = RenderResult("none", <<>>)

Rendered(r) ==
    /\ r_pc' = "rendered"
    /\ r_result' = r
    /\ UNCHANGED <<gvars, wvars, cvars, dvars, dispatched, hvars, kvars, r_handler, r_template,
                   r_context>>

RenderHTTPRequest ==
    /\ r_pc = "ready" /\ r_handler = "HTTPRequestHandler"
    /\ Rendered(HTTPRequestHandler_render_template(r_template, r_context))

RenderDBWrite ==
    /\ r_pc = "ready" /\ r_handler = "DBWriteHandler"
    /\ Rendered(DBWriteHandler_render_template(r_template, r_context))

RenderFAISSSearch ==
    /\ r_pc = "ready" /\ r_handler = "FAISSSearchHandler"
    /\ Rendered(FAISSSearchHandler_render_template(r_template, r_context))

RenderLLMCall ==
    /\ r_pc = "ready" /\ r_handler = "LLMCallHandler"
    /\ Rendered(LLMService_render(r_template, r_context))

NextRender ==
    \/ RenderHTTPRequest
    \/ RenderDBWrite
    \/ RenderFAISSSearch
    \/ RenderLLMCall

SpecRender == InitRender /\ [][NextRender]_vars

\* ------------------------ two concurrent execute_workflow calls (SpecRuns)
\* Each call is followed from create_run on, with the execution order its
\* validation gave; a step is what a call does between two awaits. The two
\* calls run the same workflow or two workflows (node ids are unique, so
\* different workflows have no node in common; as for node lists, the ids
\* are numbered in order of appearance). The clock is not followed: every
\* timestamp is the initial one.
RunOrders(first) ==
    {[i \in 1..n |-> first + i - 1] : n \in 1..MaxRunNodes} \cap Seq(NodeIds)

\* Mutant: one context dict at module level, used by every call.
context_of_shared(c) == 1

\* Line 194: context = {...}, a dict local to the _execute_nodes call.
context_of(c) == c

InitRuns ==
    /\ GraphIdle
    /\ HandlersIdle
    /\ RenderIdle
    /\ VectorIdle
    /\ input_data = None
    /\ CallStart
    /\ \E q1 \in RunOrders(1) : \E q2 \in {q1} \cup RunOrders(Len(q1) + 1) :
          calls = [c \in Calls |->
                      [pc |-> "create_run",
                       execution_order |-> IF c = 1 THEN q1 ELSE q2,
                       order_index |-> 0, run_id |-> 0, cur_ne |-> 0, output |-> None]]
    /\ contexts = [c \in Calls |-> <<>>]
    /\ handed = <<>> /\ created_by = <<>>

RunsFrame == UNCHANGED <<gvars, wvars, cvars, hvars, rvars, now, faults, dispatched>>

\* Lines 87-93: create_run.
CallCreateRun(c) ==
    /\ calls[c].pc = "create_run"
    /\ db_runs' = Append(db_runs, new_run(None, now))
    /\ calls' = [calls EXCEPT ![c].run_id = Len(db_runs) + 1, ![c].pc = "loop"]
    /\ UNCHANGED <<db_node_execs, contexts, handed, created_by>>
    /\ RunsFrame

\* Lines 190-212: on entry the context is created; then the next node's
\* NodeExecution record.
CallStartNode(c) ==
    /\ calls[c].pc = "loop"
    /\ calls[c].order_index < Len(calls[c].execution_order)
    /\ db_node_execs' =
          Append(db_node_execs,
                 new_node_run(calls[c].run_id,
                              calls[c].execution_order[calls[c].order_index + 1],
                              calls[c].order_index, now))
    /\ created_by' = Append(created_by, c)
    /\ calls' = [calls EXCEPT ![c].cur_ne = Len(db_node_execs) + 1,
                              ![c].pc = "dispatch"]
    /\ contexts' = IF calls[c].order_index = 0
                   THEN [contexts EXCEPT ![context_of(c)] = <<>>] ELSE contexts
    /\ UNCHANGED <<db_runs, handed>>
    /\ RunsFrame

\* Lines 214-222: the handler gets the call's context and returns a new dict,
\* which is stored in the context, or raises.
CallDispatch(c) ==
    /\ calls[c].pc = "dispatch"
    /\ LET node_id == calls[c].execution_order[calls[c].order_index + 1]
           inputs  == handler_inputs(None, contexts[context_of(c)])
       IN  \E res \in {None} \cup {Some([node |-> node_id, val |-> v, by |-> c]) :
                                      v \in OutputValues} :
              /\ handed' = Append(handed, [call |-> c, node |-> node_id,
                                           previous_outputs |-> inputs.previous_outputs,
                                           result |-> res])
              /\ IF res = None
                 THEN /\ calls' = [calls EXCEPT ![c].pc = "mark_node_failed"]
                      /\ contexts' = contexts
                 ELSE /\ calls' = [calls EXCEPT ![c].pc = "mark_completed",
                                                ![c].output = res]
                      /\ contexts' = [contexts EXCEPT ![context_of(c)] =
                                         (node_id :> res[1]) @@ @]
    /\ UNCHANGED <<db_runs, db_node_execs, created_by>>
    /\ RunsFrame

\* Lines 224-230: update_node_run(status="completed", output_data=output).
CallMarkNodeCompleted(c) ==
    /\ calls[c].pc = "mark_completed"
    /\ db_node_execs' =
          [db_node_execs EXCEPT ![calls[c].cur_ne] =
              update_node_run(@, "completed", calls[c].output, None, now)]
    /\ calls' = [calls EXCEPT ![c].pc = "loop", ![c].order_index = @ + 1,
                              ![c].output = None]
    /\ UNCHANGED <<db_runs, contexts, handed, created_by>>
    /\ RunsFrame

\* Lines 232-242: update_node_run(status="failed"), then the re-raise.
CallMarkNodeFailed(c) ==
    /\ calls[c].pc = "mark_node_failed"
    /\ db_node_execs' =
          [db_node_execs EXCEPT ![calls[c].cur_ne] =
              update_node_run(@, "failed", None,
                  Some([kind |-> "handler", node |-> @.node_id, cause |-> "handler"]),
                  now)]
    /\ calls' = [calls EXCEPT ![c].pc = "mark_failed"]
    /\ UNCHANGED <<db_runs, contexts, handed, created_by>>
    /\ RunsFrame

\* Lines 244-250 and 106-112: the loop is exhausted, the run is marked success.
CallMarkRunSuccess(c) ==
    /\ calls[c].pc = "loop"
    /\ calls[c].order_index >= Len(calls[c].execution_order)
    /\ db_runs' =
          [db_runs EXCEPT ![calls[c].run_id] =
              update_run_status(@, "success",
                  Some(final_output(contexts[context_of(c)], calls[c].execution_order)),
                  None, now)]
    /\ calls' = [calls EXCEPT ![c].pc = "done"]
    /\ UNCHANGED <<db_node_execs, contexts, handed, created_by>>
    /\ RunsFrame

\* Lines 153-165: update_run_status(status="failed"), then HTTP 500.
CallMarkRunFailed(c) ==
    /\ calls[c].pc = "mark_failed"
    /\ db_runs' =
          [db_runs EXCEPT ![calls[c].run_id] =
              update_run_status(@, "failed", None,
                  Some([kind |-> "node_failed", node |-> 0, cause |-> "handler"]), now)]
    /\ calls' = [calls EXCEPT ![c].pc = "done"]
    /\ UNCHANGED <<db_node_execs, contexts, handed, created_by>>
    /\ RunsFrame

NextRuns ==
    \E c \in Calls :
        \/ CallCreateRun(c)
        \/ CallStartNode(c)
        \/ CallDispatch(c)
        \/ CallMarkNodeCompleted(c)
        \/ CallMarkNodeFailed(c)
        \/ CallMarkRunSuccess(c)
        \/ CallMarkRunFailed(c)

SpecRuns == InitRuns /\ [][NextRuns]_vars

\* ------------- concurrent add_documents calls on one collection (SpecVector)
\* The server is one uvicorn process with one event loop (start_server.py
\* 67-72): a coroutine keeps the loop until it awaits something that suspends.
\* Awaiting a coroutine that itself never suspends does not give up the loop.
\* Mutant: every await gives up the loop.
yields_at_every_await(point) == TRUE

\* The database calls suspend; VectorService.load_collection and
\* VectorService.add_documents contain no await that suspends (FAISS and the
\* file system are called synchronously).
yields(point) == point \in {"db.execute", "db.commit", "db.refresh", "db.rollback"}

\* The loop after call c passed the await named point.
Release(point, c) == IF yields(point) THEN 0 ELSE c

\* Call c may take a step: the loop is free or c holds it.
Scheduled(c) == v_loop \in {0, c}

\* The documents of call c, and those indexed before the calls.
Documents(c) == {<<c, i>> : i \in 1..v_calls[c].documents}
StoredDocuments == {<<0, 1>>}

InitVector ==
    /\ GraphIdle
    /\ HandlersIdle
    /\ RenderIdle
    /\ RunsIdle
    /\ input_data = None
    /\ CallStart
    /\ \E n1 \in 1..MaxDocuments : \E n2 \in 1..MaxDocuments :
          v_calls = [c \in Calls |->
                        [VectorCallIdle EXCEPT !.pc = "get_collection",
                                               !.documents = IF c = 1 THEN n1 ELSE n2]]
    /\ v_loop = 0
    /\ v_disk \in {None, Some(StoredDocuments)}
    /\ \/ v_cache = 0 /\ v_objects = <<>>
       \/ v_disk # None /\ v_cache = 1 /\ v_objects = <<StoredDocuments>>
    /\ v_count \in {None, Some(Cardinality(StoredDocuments))}
    /\ v_count0 = v_count
    /\ g_sort = None /\ g_cycles = None

VectorFrame == UNCHANGED <<gvars, svars, cvars, dvars, dispatched, hvars, rvars, kvars, v_count0>>

\* vector_collection_service.py 189-197: the record is read into the session,
\* or the call ends with 404.
VectorGetCollection(c) ==
    /\ v_calls[c].pc = "get_collection" /\ Scheduled(c)
    /\ IF v_count = None
       THEN /\ v_calls' = [v_calls EXCEPT ![c].pc = "done", ![c].status = "404"]
            /\ v_loop' = 0
       ELSE /\ v_calls' = [v_calls EXCEPT ![c].pc = "load_collection",
                                          ![c].document_count = v_count[1]]
            /\ v_loop' = Release("db.execute", c)
    /\ UNCHANGED <<v_disk, v_cache, v_objects, v_count>>
    /\ VectorFrame

\* vector_service.py 224 and 96-135: the cached index, or the index loaded
\* from disk and cached, or FileNotFoundError.
VectorLoadCollection(c) ==
    /\ v_calls[c].pc = "load_collection" /\ Scheduled(c)
    /\ IF v_cache # 0
       THEN /\ v_calls' = [v_calls EXCEPT ![c].pc = "add_documents",
                                          ![c].vectorstore = v_cache]
            /\ v_loop' = Release("load_collection", c)
            /\ UNCHANGED <<v_cache, v_objects>>
       ELSE IF v_disk = None
       THEN /\ v_calls' = [v_calls EXCEPT ![c].pc = "rollback"]
            /\ v_loop' = c
            /\ UNCHANGED <<v_cache, v_objects>>
       ELSE /\ v_objects' = Append(v_objects, v_disk[1])
            /\ v_cache' = Len(v_objects) + 1
            /\ v_calls' = [v_calls EXCEPT ![c].pc = "add_documents",
                                          ![c].vectorstore = Len(v_objects) + 1]
            /\ v_loop' = Release("load_collection", c)
    /\ UNCHANGED <<v_disk, v_count>>
    /\ VectorFrame

\* vector_service.py 226-253: the documents are added to the index object,
\* the object is saved over the collection's directory and cached.
VectorAddDocuments(c) ==
    /\ v_calls[c].pc = "add_documents" /\ Scheduled(c)
    /\ v_objects' = [v_objects EXCEPT ![v_calls[c].vectorstore] = @ \cup Documents(c)]
    /\ v_disk' = Some(v_objects'[v_calls[c].vectorstore])
    /\ v_cache' = v_calls[c].vectorstore
    /\ v_calls' = [v_calls EXCEPT ![c].pc = "commit", ![c].added = TRUE]
    /\ v_loop' = Release("vector_service.add_documents", c)
    /\ UNCHANGED v_count
    /\ VectorFrame

\* vector_collection_service.py 211-212: collection.document_count +=
\* len(documents) on the object the session read, then the commit writes the
\* new value of the column, or raises.
VectorCommit(c) ==
    /\ v_calls[c].pc = "commit" /\ Scheduled(c)
    /\ \E committed \in BOOLEAN :
          IF committed
          THEN /\ v_count' = Some(v_calls[c].document_count + v_calls[c].documents)
               /\ v_calls' = [v_calls EXCEPT ![c].pc = "refresh",
                                             ![c].document_count = @ + v_calls[c].documents]
          ELSE /\ v_count' = v_count
               /\ v_calls' = [v_calls EXCEPT ![c].pc = "rollback"]
    /\ v_loop' = Release("db.commit", c)
    /\ UNCHANGED <<v_disk, v_cache, v_objects>>
    /\ VectorFrame

\* vector_collection_service.py 213-222: the record is read again and the
\* result is returned.
VectorRefresh(c) ==
    /\ v_calls[c].pc = "refresh" /\ Scheduled(c)
    /\ v_calls' = [v_calls EXCEPT ![c].pc = "done", ![c].status = "success",
                                  ![c].document_count = v_count[1],
                                  ![c].total_documents = v_count[1]]
    /\ v_loop' = 0
    /\ UNCHANGED <<v_disk, v_cache, v_objects, v_count>>
    /\ VectorFrame

\* vector_collection_service.py 226-232: rollback, then HTTP 500.
VectorRollback(c) ==
    /\ v_calls[c].pc = "rollback" /\ Scheduled(c)
    /\ v_calls' = [v_calls EXCEPT ![c].pc = "done", ![c].status = "500"]
    /\ v_loop' = 0
    /\ UNCHANGED <<v_disk, v_cache, v_objects, v_count>>
    /\ VectorFrame

NextVector ==
    \E c \in Calls :
        \/ VectorGetCollection(c)
        \/ VectorLoadCollection(c)
        \/ VectorAddDocuments(c)
        \/ VectorCommit(c)
        \/ VectorRefresh(c)
        \/ VectorRollback(c)

SpecVector == InitVector /\ [][NextVector]_vars

\* ------------------------------------------------- graph claims (SpecGraph)
\* Independent of Kahn's algorithm: the pairs joined by a path of at least one
\* edge, by k rounds of relational composition.
RECURSIVE PathClosure(_, _, _)
PathClosure(R, E, k) ==
    IF k = 0 THEN R
    ELSE PathClosure(R \cup {p \in NodeIds \X NodeIds :
                                \E b \in NodeIds : <<p[1], b>> \in R /\ <<b, p[2]>> \in E},
                     E, k - 1)

\* Every edge connects two listed nodes.
EdgesListed(ns, es) ==
    \A e \in Range(es) : e[1] \in Range(ns) /\ e[2] \in Range(ns)

\* Some listed node lies on a directed cycle of edges between listed nodes.
HasCycle(ns, es) ==
    LET E == {e \in Range(es) : e[1] \in Range(ns) /\ e[2] \in Range(ns)}
    IN  \E v \in Range(ns) : <<v, v>> \in PathClosure(E, E, MaxNodes)

Validated == g_pc = "validated"

C2_CycleGivesCycleError ==
    (Validated /\ g_nodes # <<>>
       /\ EdgesListed(g_nodes, g_edges) /\ HasCycle(g_nodes, g_edges))
    => g_result.error = "CycleError"

Sorted == g_sort # None /\ g_sort[1].error = "none"

\* The parents of node id, and the parent that releases it: the last of its
\* parents in the order.
Parents(id) == {e[1] : e \in {x \in Range(g_edges) : x[2] = id}}
ReleasedBy(id, parent) ==
    /\ parent \in Parents(id)
    /\ \A q \in Parents(id) :
          IndexOf(g_sort[1].sorted_nodes, q) <= IndexOf(g_sort[1].sorted_nodes, parent)

\* C25 (as claimed): nodes that become ready together, the start nodes or
\* the children released by one parent, come out of topological_sort in the
\* order of the node list, whatever the order of the edge list.
C25_TiesInNodeListOrder ==
    (Sorted /\ EdgesListed(g_nodes, g_edges))
    => \A a, b \in Range(g_nodes) :
          (/\ IndexOf(g_nodes, a) < IndexOf(g_nodes, b)
           /\ \/ Parents(a) = {} /\ Parents(b) = {}
              \/ \E parent \in Range(g_nodes) :
                    ReleasedBy(a, parent) /\ ReleasedBy(b, parent))
          => IndexOf(g_sort[1].sorted_nodes, a) < IndexOf(g_sort[1].sorted_nodes, b)

\* C26: for edges between listed nodes, detect_cycles returns True exactly
\* when the graph has a directed cycle, and exactly when topological_sort
\* raises CycleError or NoStartNodeError instead of returning an order.
C26_DetectorAgreesWithSort ==
    (g_sort # None /\ g_cycles # None /\ EdgesListed(g_nodes, g_edges))
    => /\ g_cycles[1] = HasCycle(g_nodes, g_edges)
       /\ g_cycles[1] <=> g_sort[1].error \in {"CycleError", "NoStartNodeError"}
       /\ ~g_cycles[1] <=> g_sort[1].error = "none"

\* Both algorithms ran on a start node followed by a two-node cycle: the
\* detector found it and the sort raised CycleError.
C26_Witness ==
    /\ g_nodes = <<1, 2, 3>> /\ g_edges = <<<<1, 2>>, <<2, 3>>, <<3, 2>>>>
    /\ g_cycles = Some(TRUE)
    /\ g_sort # None /\ g_sort[1].error = "CycleError"

\* --------------------------------------------------- run claims (Spec)
Done == pc = "done"

\* C4: once the handler of the node at position i has failed, no NodeExecution
\* record exists and no handler has been dispatched for a later position (in
\* every reachable state, so none is ever created).
C4_FailFast ==
    \A k \in 1..Len(dispatched) :
        dispatched[k].result = None
        => /\ \A j \in 1..Len(db_node_execs) :
                 db_node_execs[j].execution_order <= dispatched[k].pos
           /\ \A j \in 1..Len(dispatched) : dispatched[j].pos <= dispatched[k].pos

\* The second of three nodes failed and the call ended with one completed and
\* one failed record.
C4_Witness ==
    /\ Done /\ outcome = "failed_500"
    /\ Len(execution_order) = 3
    /\ Len(dispatched) = 2
    /\ dispatched[1].result # None /\ dispatched[2].result = None
    /\ Len(db_node_execs) = 2
    /\ db_node_execs[2].status = "failed"

\* C5 (as claimed): when a call for which create_run returned a run record has
\* returned or raised, that run has status success or failed.
C5_RunNeverLeftRunning ==
    (Done /\ run_id # 0) => db_runs[run_id].status \in {"success", "failed"}

\* C6 (as claimed): every run in a terminal status has completed_at set, not
\* earlier than started_at.
C6_TerminalRunHasCompletedAt ==
    \A r \in 1..Len(db_runs) :
        db_runs[r].status \in {"success", "failed"}
        => /\ db_runs[r].completed_at # None
           /\ db_runs[r].completed_at[1] >= db_runs[r].started_at[1]

\* C7 (as claimed): a run that is success or failed keeps that status in every
\* later step.
C7_RunStatusWrittenOnce ==
    [][\A r \in 1..Len(db_runs) :
          db_runs[r].status \in {"success", "failed"}
          => db_runs'[r].status = db_runs[r].status]_vars

\* C8 (as claimed): a NodeExecution that is completed or failed keeps that
\* status in every later step.
C8_NodeStatusWrittenOnce ==
    [][\A j \in 1..Len(db_node_execs) :
          db_node_execs[j].status \in {"completed", "failed"}
          => db_node_execs'[j].status = db_node_execs[j].status]_vars

\* C9: when the call was rejected (workflow not found, no nodes, invalid
\* graph), no run record and no NodeExecution record exists and no handler
\* was dispatched.
C9_RejectedBeforeAnyRecord ==
    (Done /\ outcome \in {"not_found", "no_nodes", "invalid_graph"})
    => db_runs = <<>> /\ db_node_execs = <<>> /\ dispatched = <<>>

\* The cycle 1 -> 2 -> 3 -> 2 behind start node 1 was rejected by validation.
C9_Witness ==
    /\ Done /\ outcome = "invalid_graph"
    /\ nodes = <<1, 2, 3>>
    /\ edges = <<<<1, 2>>, <<2, 3>>, <<3, 2>>>>
    /\ db_runs = <<>>

AllHandlersSucceeded ==
    /\ execution_order # <<>>
    /\ Len(dispatched) = Len(execution_order)
    /\ \A k \in 1..Len(dispatched) : dispatched[k].result # None

C11_FailureKeepsEarlierRecords ==
    /\ \A k \in 1..Len(dispatched) :
          (faults = 0 /\ dispatched[k].result = None)
          => LET i == dispatched[k].pos IN
             /\ \A j \in 1..i :
                   /\ db_node_execs[j].node_id = execution_order[j]
                   /\ db_node_execs[j].status = "completed"
                   /\ db_node_execs[j].output_data = dispatched[j].result
             /\ Done => /\ Len(db_node_execs) = i + 1
                        /\ db_node_execs[i + 1].node_id = execution_order[i + 1]
                        /\ db_node_execs[i + 1].status = "failed"
                        /\ db_runs[run_id].status = "failed"
    /\ \A j \in 1..Len(db_node_execs) :
          db_node_execs[j].status = "failed"
          => db_runs[db_node_execs[j].workflow_run_id].status # "success"

\* The last of three nodes failed after two nodes had completed.
C11_Witness ==
    /\ Done /\ faults = 0
    /\ Len(execution_order) = 3 /\ Len(dispatched) = 3
    /\ dispatched[3].result = None
    /\ db_node_execs[1].status = "completed" /\ db_node_execs[2].status = "completed"
    /\ db_node_execs[2].output_data = dispatched[2].result
    /\ db_node_execs[3].status = "failed"
    /\ db_runs[run_id].status = "failed"

\* C12 (as claimed): in every state a failed run has no output_data and a
\* success run has no error_message.
C12_OutputOnlyOnSuccess ==
    \A r \in 1..Len(db_runs) :
        /\ db_runs[r].status = "failed" => db_runs[r].output_data = None
        /\ db_runs[r].status = "success" => db_runs[r].error_message = None

\* C18 (as claimed): for every node list and edge list, edges with unlisted
\* ends and duplicate edges included, validate_graph returns a result or
\* raises one of the four graph validation errors, and it raises CycleError
\* only for a graph that has a cycle.
C18_ResultOrTypedError ==
    Validated
    => /\ g_result.error \in {"none"} \cup GraphValidationErrors
       /\ g_result.error = "CycleError" => HasCycle(g_nodes, g_edges)

\* C19: validate_graph succeeds with an empty start_nodes list exactly when
\* the node list is empty, and for the empty node list all four result fields
\* are empty whatever the edge list is.
C19_EmptyGraphOnly ==
    Validated
    => /\ (g_result.error = "none" /\ g_result.start_nodes = <<>>) <=> g_nodes = <<>>
       /\ g_nodes = <<>>
          => /\ g_result.error = "none"
             /\ g_result.start_nodes = <<>> /\ g_result.sorted_nodes = <<>>
             /\ g_result.reachable_nodes = {} /\ g_result.unreachable_nodes = {}

\* The empty node list was validated together with three edges.
C19_Witness ==
    /\ Validated /\ g_nodes = <<>> /\ Len(g_edges) = MaxEdges
    /\ g_result.error = "none" /\ g_result.start_nodes = <<>>

\* C13: a node whose type is not registered is rejected at dispatch, not at
\* validation: when such a node is dispatched, validation has succeeded, the
\* run and the node's NodeExecution record exist and the dispatch fails; when
\* the call has ended (no persistence operation having raised) the record is
\* failed, no later node was attempted and the run is failed.
C13_UnknownTypeFailsAtDispatch ==
    \A k \in 1..Len(dispatched) :
        ~dispatched[k].registered
        => LET i == dispatched[k].pos IN
           /\ dispatched[k].result = None
           /\ execution_order # <<>> /\ outcome # "invalid_graph"
           /\ run_id \in 1..Len(db_runs)
           /\ Len(db_node_execs) = i + 1
           /\ db_node_execs[i + 1].node_id = dispatched[k].node
           /\ db_node_execs[i + 1].workflow_run_id = run_id
           /\ Len(dispatched) = k
           /\ (Done /\ faults = 0)
              => /\ db_node_execs[i + 1].status = "failed"
                 /\ db_runs[run_id].status = "failed"
                 /\ outcome = "failed_500"

\* The second of three nodes had an unregistered type: one record completed,
\* one failed, the third node never started.
C13_Witness ==
    /\ Done /\ faults = 0
    /\ Len(execution_order) = 3
    /\ Len(dispatched) = 2
    /\ dispatched[1].registered /\ ~dispatched[2].registered
    /\ Len(db_node_execs) = 2
    /\ db_node_execs[1].status = "completed" /\ db_node_execs[2].status = "failed"
    /\ db_runs[run_id].status = "failed"

C24_NoRetry ==
    /\ \A k, m \in 1..Len(dispatched) :
          dispatched[k].node = dispatched[m].node => k = m
    /\ \A i, j \in 1..Len(db_node_execs) :
          (/\ db_node_execs[i].workflow_run_id = db_node_execs[j].workflow_run_id
           /\ db_node_execs[i].node_id = db_node_execs[j].node_id) => i = j
    /\ \A k \in 1..Len(dispatched) :
          dispatched[k].result = None => k = Len(dispatched)

\* The first of three nodes failed and the call ended: one dispatch, one
\* record, marked failed.
C24_Witness ==
    /\ Done /\ outcome = "failed_500"
    /\ Len(execution_order) = 3
    /\ Len(dispatched) = 1 /\ dispatched[1].result = None
    /\ Len(db_node_execs) = 1 /\ db_node_execs[1].status = "failed"
    /\ db_runs[run_id].status = "failed"

\* ------------------------------------------- handler claims (SpecHandlers)
Looked == h_pc \in {"execute", "awaiting", "done"}

ExternalCalls == {"generate_with_template", "request", "search", "execute"}

\* The configurations C15 lists, per handler class.
InvalidRequiredField(handler_class, config) ==
    CASE handler_class = "LLMCallHandler" ->
            "prompt_template" \notin DOMAIN config
      [] handler_class = "HTTPRequestHandler" ->
            \/ "url" \notin DOMAIN config
            \/ /\ "method" \in DOMAIN config
               /\ config["method"].s \notin
                     ALLOWED_METHODS \cup {"get", "post", "put", "delete", "patch",
                                           "head", "options"}
      [] handler_class = "FAISSSearchHandler" ->
            \/ "collection_name" \notin DOMAIN config
            \/ "query" \notin DOMAIN config
            \/ /\ "top_k" \in DOMAIN config
               /\ config["top_k"].kind = "int" /\ config["top_k"].n <= 0
      [] handler_class = "DBWriteHandler" ->
            /\ "raw_sql" \notin DOMAIN config
            /\ ("operation" \notin DOMAIN config \/ "table" \notin DOMAIN config)
      [] OTHER -> FALSE

\* C15: a handler given a configuration with a missing or invalid required
\* field raises HandlerExecutionError without having called its external
\* collaborator.
C15_RejectedBeforeExternalCall ==
    (h_pc = "done" /\ h_handler # "none" /\ InvalidRequiredField(h_handler, h_config))
    => /\ h_result = "HandlerExecutionError"
       /\ \A k \in 1..Len(h_calls) : h_calls[k] \notin ExternalCalls

\* A vector search node with top_k = 0 was rejected before any search.
C15_Witness ==
    /\ h_pc = "done" /\ h_handler = "FAISSSearchHandler"
    /\ DOMAIN h_config = {"collection_name", "query", "top_k"}
    /\ h_config["top_k"] = IntV(0)
    /\ h_result = "HandlerExecutionError"
    /\ h_calls = <<"is_available">>

\* The value is a non-empty where: a dict with keys, or a non-empty value of
\* another type.
NonEmptyWhere(where) ==
    \/ where.kind = "dict" /\ where.n > 0
    \/ where.kind = "str" /\ where.s # ""

\* C30 (as claimed): a structured DELETE or UPDATE whose config has a
\* non-empty where either fails without executing SQL, or executes a
\* statement with one WHERE condition per filter key supplied; it never
\* executes a statement without WHERE.
C30_WhereNeverDropped ==
    (/\ h_pc = "done" /\ h_handler = "DBWriteHandler"
     /\ "raw_sql" \notin DOMAIN h_config
     /\ "operation" \in DOMAIN h_config
     /\ Upper(h_config["operation"].s) \in {"DELETE", "UPDATE"}
     /\ "where" \in DOMAIN h_config /\ NonEmptyWhere(h_config["where"]))
    => \/ /\ h_result = "HandlerExecutionError"
          /\ "execute" \notin Range(h_calls) /\ h_statement = None
       \/ /\ h_statement # None
          /\ h_statement[1].where_conditions > 0
          /\ h_config["where"].kind = "dict"
          /\ h_statement[1].where_conditions = h_config["where"].n

\* --------------------------------------------- rendering claims (SpecRender)
\* pat occurs in t as a substring.
Contains(t, pat) ==
    \E i \in 1..(Len(t) - Len(pat) + 1) : SubSeq(t, i, i + Len(pat) - 1) = pat

Placeholder(k) == <<"{", k, "}">>

\* t is made of text, doubled braces and placeholders {k} with a
\* one-character name, read from character i on.
RECURSIVE Tokenizes(_, _)
Tokenizes(t, i) ==
    IF i > Len(t) THEN TRUE
    ELSE IF t[i] \notin {"{", "}"} THEN Tokenizes(t, i + 1)
    ELSE IF i < Len(t) /\ t[i + 1] = t[i] THEN Tokenizes(t, i + 2)
    ELSE /\ t[i] = "{" /\ i + 2 <= Len(t)
         /\ t[i + 1] \in ContextKeys /\ t[i + 2] = "}"
         /\ Tokenizes(t, i + 3)

\* C16 (as claimed, for templates made of text, doubled braces and
\* placeholders): a template that contains no {key} for a key of the context
\* is rendered to itself by every handler.
C16_RenderIdentityWithoutMatch ==
    (r_pc = "rendered" /\ Tokenizes(r_template, 1)
       /\ \A k \in Range(r_context.keys) : ~Contains(r_template, Placeholder(k)))
    => r_result = RenderResult("none", r_template)

\* Every brace of t belongs to a placeholder {k} with a one-character name.
WellFormed(t) ==
    \A i \in 1..Len(t) :
        /\ t[i] = "{" => /\ i + 2 <= Len(t)
                         /\ t[i + 1] \in ContextKeys /\ t[i + 2] = "}"
        /\ t[i] = "}" => /\ i >= 3
                         /\ t[i - 2] = "{" /\ t[i - 1] \in ContextKeys

\* C17 (as claimed, for templates whose braces all belong to placeholders):
\* in every handler, a template with a placeholder whose key is absent is
\* rendered without raising to its original text, and a template that is one
\* placeholder of a present key is rendered to the context value.
C17_PermissiveSubstitution ==
    (r_pc = "rendered" /\ WellFormed(r_template))
    => /\ (\E k \in ContextKeys \ Range(r_context.keys) :
              Contains(r_template, Placeholder(k)))
          => r_result = RenderResult("none", r_template)
       /\ \A k \in Range(r_context.keys) :
              r_template = Placeholder(k)
              => r_result = RenderResult("none", r_context.at[k])

\* One pass over t from character i on: a placeholder {k} of a key of the
\* variables is replaced by the key's value, which is not read again.
RECURSIVE SinglePass(_, _, _)
SinglePass(t, i, variables) ==
    IF i > Len(t) THEN <<>>
    ELSE IF /\ i + 2 <= Len(t) /\ t[i] = "{" /\ t[i + 2] = "}"
            /\ t[i + 1] \in Range(variables.keys)
    THEN variables.at[t[i + 1]] \o SinglePass(t, i + 3, variables)
    ELSE <<t[i]>> \o SinglePass(t, i + 1, variables)

\* C28 (as claimed): the LLM prompt is rendered in a single pass: inserted
\* text is not scanned again, so a value that holds {k} for another key k
\* shows literally in the prompt, whatever the order of the variables.
C28_SinglePassRendering ==
    (r_pc = "rendered" /\ r_handler = "LLMCallHandler")
    => r_result = RenderResult("none", SinglePass(r_template, 1, r_context))

\* ------------------------------------------ concurrency claims (SpecRuns)
\* C20: whatever the interleaving of two concurrent runs, the previous_outputs
\* map handed to a node holds only outputs that handlers of the same run
\* returned, for nodes of that run's workflow; every NodeExecution references
\* the run of the call that created it, and the two calls have different runs.
C20_RunsShareNothing ==
    /\ \A k \in 1..Len(handed) :
          /\ DOMAIN handed[k].previous_outputs
                \subseteq Range(calls[handed[k].call].execution_order)
          /\ \A n \in DOMAIN handed[k].previous_outputs :
                /\ handed[k].previous_outputs[n].by = handed[k].call
                /\ handed[k].previous_outputs[n].node = n
    /\ \A j \in 1..Len(db_node_execs) :
          /\ db_node_execs[j].workflow_run_id = calls[created_by[j]].run_id
          /\ db_node_execs[j].output_data # None
             => db_node_execs[j].output_data[1].by = created_by[j]
    /\ \A c, d \in Calls :
          (c # d /\ calls[c].run_id # 0) => calls[c].run_id # calls[d].run_id

\* Two runs of the same two-node workflow interleaved node by node, and both
\* second nodes received the output of their own run's first node.
C20_Witness ==
    /\ \A c \in Calls : calls[c].pc = "done" /\ calls[c].execution_order = <<1, 2>>
    /\ Len(handed) = 4
    /\ handed[1].call = 1 /\ handed[2].call = 2
    /\ handed[3].call = 1 /\ handed[4].call = 2
    /\ \A k \in {3, 4} : /\ DOMAIN handed[k].previous_outputs = {1}
                         /\ handed[k].previous_outputs[1].by = handed[k].call
    /\ \A r \in 1..Len(db_runs) : db_runs[r].status = "success"

\* ------------------------------------ vector collection claims (SpecVector)
\* C21: document additions to one collection are serialized: no call sits
\* between its load and its save while the other call does, and once a call
\* has saved, the persisted index holds its documents from then on.
C21_AdditionsSerialized ==
    /\ \A c, d \in Calls :
          (c # d /\ v_calls[c].pc = "add_documents") => v_calls[d].pc # "add_documents"
    /\ \A c \in Calls :
          v_calls[c].added => (v_disk # None /\ Documents(c) \subseteq v_disk[1])

\* Both calls read the record before either touched the index, the first
\* saved and committed, then the second saved: the persisted index has the
\* old documents and those of both calls.
C21_Witness ==
    /\ \A c \in Calls : v_calls[c].added
    /\ v_calls[1].pc = "refresh" /\ v_calls[2].pc = "commit"
    /\ v_calls[2].document_count = v_count0[1] /\ v_count # v_count0
    /\ v_disk = Some(StoredDocuments \cup Documents(1) \cup Documents(2))

\* C29: when all the concurrent add_documents calls succeeded, the record's
\* document_count is the initial count plus the documents of all the calls.
C29_NoLostCount ==
    (\A c \in Calls : v_calls[c].status = "success")
    => v_count = Some(v_count0[1] + v_calls[1].documents + v_calls[2].documents)

\* ------------------------------------ termination claims (SpecHandlersLive)
\* C22: every handler execution that has started comes to an end, with a
\* result or a failure, even when the collaborator never answers: the awaited
\* call of the LLM and HTTP handlers is bounded by a timeout for every
\* configuration.
C22_HandlerAlwaysEnds == (h_pc \in {"execute", "awaiting"}) ~> (h_pc = "done")

=============================================================================
